---- MODULE Spec2Model ----
(* Model of minesweeper.py: the Minesweeper board, Sentence and the          *)
(* MinesweeperAI knowledge-base engine (add_knowledge and its fixpoint loop, *)
(* make_safe_move, make_random_move).                                        *)
EXTENDS Integers, FiniteSets, Sequences, TLC

(* ---------------- bounds of the model ---------------- *)
Height == 3
Width == 3
MaxMines == 2
MaxCalls == 3
MaxSentences == 1

(* ---------------- program constants ---------------- *)
DefaultHeight == 8
DefaultWidth == 8
KnowledgeCap == 50

(* the value make_safe_move / make_random_move return for "no move" *)
None == <<>>

VARIABLES height, width, board, moves_made, mines, safes, knowledge,
          starting_knowledge, pc, op, arg, ret, calls, exit

vars == <<height, width, board, moves_made, mines, safes, knowledge,
          starting_knowledge, pc, op, arg, ret, calls, exit>>

(* all coordinates of an h x w grid *)
Grid(h, w) == {<<i, j>> : i \in 0..(h - 1), j \in 0..(w - 1)}

(* all coordinates of the engine's grid *)
Cells == Grid(height, width)

(* in-bounds neighbours of a cell, the cell itself excluded *)
neighbouring_cells(cell) ==
    {c \in Cells : /\ c # cell
                   /\ c[1] \in (cell[1] - 1)..(cell[1] + 1)
                   /\ c[2] \in (cell[2] - 1)..(cell[2] + 1)}

(* Minesweeper.nearby_mines *)
nearby_mines(cell) == Cardinality(neighbouring_cells(cell) \cap board)

(* Sentence(cells, count) *)
Sentence(cells, count) == [cells |-> cells, count |-> count]

(* faulty known_mines: any positive count makes every cell a mine *)
known_mines_AnyCount(s) == IF s.count >= 1 THEN s.cells ELSE {}

(* Sentence.known_mines *)
known_mines(s) == IF Cardinality(s.cells) = s.count THEN s.cells ELSE {}

(* faulty known_safes: tests the cells for emptiness instead of the count *)
known_safes_EmptyTest(s) == IF Cardinality(s.cells) = 0 THEN s.cells ELSE {}

(* Sentence.known_safes *)
known_safes(s) == IF s.count = 0 THEN s.cells ELSE {}

(* faulty Sentence.mark_mine: removes the cell and forgets the decrement *)
SentenceMarkMine_KeepCount(s, cell) ==
    IF cell \in s.cells
    THEN [cells |-> s.cells \ {cell}, count |-> s.count]
    ELSE s

(* faulty Sentence.mark_mine: decrements without testing the membership *)
SentenceMarkMine_AlwaysDecrement(s, cell) ==
    [cells |-> s.cells \ {cell}, count |-> s.count - 1]

(* Sentence.mark_mine for one cell *)
SentenceMarkMine(s, cell) ==
    IF cell \in s.cells
    THEN Sentence(s.cells \ {cell}, s.count - 1)
    ELSE s

(* faulty Sentence.mark_safe: decrements the count as mark_mine does *)
SentenceMarkSafe_Decrement(s, cell) ==
    IF cell \in s.cells
    THEN [cells |-> s.cells \ {cell}, count |-> s.count - 1]
    ELSE s

(* Sentence.mark_safe for one cell *)
SentenceMarkSafe(s, cell) ==
    IF cell \in s.cells
    THEN Sentence(s.cells \ {cell}, s.count)
    ELSE s

(* Sentence.mark_mine applied for every cell of a set, one after another *)
RECURSIVE SentenceMarkMines(_, _)
SentenceMarkMines(s, cs) ==
    IF cs = {} THEN s
    ELSE LET c == CHOOSE x \in cs : TRUE
         IN SentenceMarkMines(SentenceMarkMine(s, c), cs \ {c})

(* Sentence.mark_safe applied for every cell of a set, one after another *)
RECURSIVE SentenceMarkSafes(_, _)
SentenceMarkSafes(s, cs) ==
    IF cs = {} THEN s
    ELSE LET c == CHOOSE x \in cs : TRUE
         IN SentenceMarkSafes(SentenceMarkSafe(s, c), cs \ {c})

(* engine state touched by mark_mine / mark_safe *)
Engine(m, s, k) == [mines |-> m, safes |-> s, knowledge |-> k]

(* faulty MinesweeperAI.mark_mine: assigns self.mines instead of adding *)
mark_mine_Assign(e, cs) ==
    [mines |-> cs, safes |-> e.safes,
     knowledge |-> [n \in 1..Len(e.knowledge) |->
                       SentenceMarkMines(e.knowledge[n], cs)]]

(* MinesweeperAI.mark_mine for every cell of a set *)
mark_mine(e, cs) ==
    Engine(e.mines \cup cs, e.safes,
           [n \in 1..Len(e.knowledge) |-> SentenceMarkMines(e.knowledge[n], cs)])

(* faulty mark_safe: the cells are recorded but no sentence is narrowed *)
mark_safe_NoNarrow(e, cs) ==
    Engine(e.mines, e.safes \cup cs, e.knowledge)

(* MinesweeperAI.mark_safe for every cell of a set *)
mark_safe(e, cs) ==
    Engine(e.mines, e.safes \cup cs,
           [n \in 1..Len(e.knowledge) |-> SentenceMarkSafes(e.knowledge[n], cs)])

(* refresh_knowledge: walk the snapshot, marking the live engine; a        *)
(* sentence with nothing known runs neither inner loop                     *)
RECURSIVE RefreshFrom(_, _, _)
RefreshFrom(snapshot, n, e) ==
    IF n > Len(snapshot) THEN e
    ELSE LET sentence == snapshot[n]
         IN IF known_mines(sentence) # {}
            THEN RefreshFrom(snapshot, n + 1,
                     mark_safe(mark_mine(e, known_mines(sentence)),
                               known_safes(sentence)))
            ELSE IF known_safes(sentence) # {}
            THEN RefreshFrom(snapshot, n + 1,
                     mark_safe(e, known_safes(sentence)))
            ELSE RefreshFrom(snapshot, n + 1, e)

refresh_knowledge(e) == RefreshFrom(e.knowledge, 1, e)

(* list.remove(x): drop the first element equal to x *)
RECURSIVE ListRemove(_, _)
ListRemove(k, x) ==
    IF k = <<>> THEN k
    ELSE IF Head(k) = x THEN Tail(k)
    ELSE <<Head(k)>> \o ListRemove(Tail(k), x)

(* remove_stale_sentences: walk the snapshot, removing from the live list *)
RECURSIVE RemoveStaleFrom(_, _, _)
RemoveStaleFrom(snapshot, n, k) ==
    IF n > Len(snapshot) THEN k
    ELSE RemoveStaleFrom(snapshot, n + 1,
            IF snapshot[n].cells = {} THEN ListRemove(k, snapshot[n]) ELSE k)

remove_stale_sentences(k) == RemoveStaleFrom(k, 1, k)

(* "new_sentence not in self.knowledge" *)
InList(k, x) == \E n \in 1..Len(k) : k[n] = x

(* infer_new_sentences visits the pairs (sentence_1, sentence_2) of the    *)
(* snapshot in the order of its two nested loops; Pairs lists them so      *)
Pairs(snapshot) ==
    [p \in 1..(Len(snapshot) * Len(snapshot)) |->
        <<((p - 1) \div Len(snapshot)) + 1, ((p - 1) % Len(snapshot)) + 1>>]

(* "sentence_1.cells < sentence_2.cells": a subset, and not equal *)
ProperSubset(sentence_1, sentence_2) ==
    /\ sentence_1.cells \subseteq sentence_2.cells
    /\ sentence_1.cells # sentence_2.cells

(* faulty subtraction: the count of the larger sentence is kept *)
Inferred_KeepCount(sentence_1, sentence_2) ==
    [cells |-> sentence_2.cells \ sentence_1.cells,
     count |-> sentence_2.count]

(* faulty subtraction: the counts the wrong way round *)
Inferred_Swapped(sentence_1, sentence_2) ==
    [cells |-> sentence_2.cells \ sentence_1.cells,
     count |-> sentence_1.count - sentence_2.count]

(* the sentence built from a pair: the cells unique to sentence_2 and the  *)
(* difference of the counts                                                *)
Inferred(sentence_1, sentence_2) ==
    Sentence(sentence_2.cells \ sentence_1.cells,
             sentence_2.count - sentence_1.count)

(* infer_new_sentences: each pair with sentence_1.cells < sentence_2.cells *)
(* builds a sentence, appended unless it is in self.knowledge already,     *)
(* that is in the list at entry or appended for an earlier pair            *)
infer_new_sentences(k) ==
    LET snapshot == k
        subset_pairs ==
            SelectSeq(Pairs(snapshot),
                      LAMBDA p : ProperSubset(snapshot[p[1]], snapshot[p[2]]))
        built == [m \in 1..Len(subset_pairs) |->
                     Inferred(snapshot[subset_pairs[m][1]],
                              snapshot[subset_pairs[m][2]])]
        appended(m) ==
            /\ ~InList(k, built[m])
            /\ \A q \in 1..(m - 1) : built[q] # built[m]
        kept == {m \in 1..Len(built) : appended(m)}
        rank(m) == Cardinality({q \in kept : q <= m})
    IN k \o [r \in 1..Cardinality(kept) |->
                built[CHOOSE m \in kept : rank(m) = r]]

(* faulty make_safe_move: forgets the moves already made *)
SafeMoves_All == safes

(* make_safe_move: the moves it chooses among *)
SafeMoves == safes \ moves_made

(* faulty make_random_move: forgets the known mines *)
RandomMoves_WithMines == Cells \ moves_made

(* make_random_move: the moves it chooses among *)
RandomMoves == (Cells \ moves_made) \ mines

(* ---------------- initial states ---------------- *)
(* MinesweeperAI.__init__ on a fresh board of the model's size *)
EngineInit ==
    /\ moves_made = {}
    /\ mines = {}
    /\ safes = {}
    /\ knowledge = <<>>
    /\ starting_knowledge = <<>>
    /\ pc = "idle"
    /\ op = "init"
    /\ arg = None
    /\ ret = None
    /\ calls = 0
    /\ exit = "none"

Init ==
    /\ height = Height
    /\ width = Width
    /\ board \in {b \in SUBSET Grid(Height, Width) : Cardinality(b) <= MaxMines}
    /\ EngineInit

(* ---------------- operations ---------------- *)
(* faulty append: a new sentence left without cells is not stored *)
add_knowledge_SkipEmpty(cell, count) ==
    /\ pc = "idle"
    /\ LET e == mark_safe(Engine(mines, safes, knowledge), {cell})
           raw == Sentence(neighbouring_cells(cell), count)
           new_sentence == SentenceMarkSafes(SentenceMarkMines(raw, e.mines),
                                             e.safes)
       IN /\ moves_made' = moves_made \cup {cell}
          /\ mines' = e.mines
          /\ safes' = e.safes
          /\ knowledge' = IF new_sentence.cells = {}
                          THEN e.knowledge
                          ELSE Append(e.knowledge, new_sentence)
          /\ starting_knowledge' = knowledge'
          /\ arg' = [cell |-> cell, count |-> count]
    /\ pc' = "refresh"
    /\ op' = "add_knowledge"
    /\ ret' = None
    /\ calls' = calls + 1
    /\ exit' = "none"
    /\ UNCHANGED <<height, width, board>>

(* add_knowledge(cell, count), up to the first snapshot of the loop; no   *)
(* line of it inspects cell or count before they are used                 *)
add_knowledge(cell, count) ==
    /\ pc = "idle"
    /\ LET e == mark_safe(Engine(mines, safes, knowledge), {cell})
           raw == Sentence(neighbouring_cells(cell), count)
           new_sentence == SentenceMarkSafes(SentenceMarkMines(raw, e.mines),
                                             e.safes)
       IN /\ moves_made' = moves_made \cup {cell}
          /\ mines' = e.mines
          /\ safes' = e.safes
          /\ knowledge' = Append(e.knowledge, new_sentence)
          /\ starting_knowledge' = knowledge'
          /\ arg' = [cell |-> cell, count |-> count]
    /\ pc' = "refresh"
    /\ op' = "add_knowledge"
    /\ ret' = None
    /\ calls' = calls + 1
    /\ exit' = "none"
    /\ UNCHANGED <<height, width, board>>

(* the board reports the count of a cell that is not a mine *)
AddKnowledge(cell) ==
    /\ cell \in Cells \ board
    /\ add_knowledge(cell, nearby_mines(cell))

(* loop body, first step: self.refresh_knowledge() *)
Refresh ==
    /\ pc = "refresh"
    /\ LET e == refresh_knowledge(Engine(mines, safes, knowledge))
       IN /\ mines' = e.mines
          /\ safes' = e.safes
          /\ knowledge' = e.knowledge
    /\ pc' = "prune"
    /\ UNCHANGED <<height, width, board, moves_made, starting_knowledge,
                   op, arg, ret, calls, exit>>

(* loop body, second step: self.remove_stale_sentences() *)
RemoveStale ==
    /\ pc = "prune"
    /\ knowledge' = remove_stale_sentences(knowledge)
    /\ pc' = "infer"
    /\ UNCHANGED <<height, width, board, moves_made, mines, safes,
                   starting_knowledge, op, arg, ret, calls, exit>>

(* faulty loop test: compares the list with its copy by identity, which   *)
(* is never true, so that only the cap ends the loop                      *)
InferAndTest_Identity ==
    /\ pc = "infer"
    /\ knowledge' = infer_new_sentences(knowledge)
    /\ IF Len(knowledge') > KnowledgeCap
       THEN /\ pc' = "idle"
            /\ exit' = "cap"
            /\ starting_knowledge' = <<>>
       ELSE /\ pc' = "refresh"
            /\ exit' = exit
            /\ starting_knowledge' = knowledge'
    /\ UNCHANGED <<height, width, board, moves_made, mines, safes,
                   op, arg, ret, calls>>

(* loop body, last step: self.infer_new_sentences(), then the two exits *)
InferAndTest ==
    /\ pc = "infer"
    /\ knowledge' = infer_new_sentences(knowledge)
    /\ IF knowledge' = starting_knowledge
       THEN /\ pc' = "idle"
            /\ exit' = "fixpoint"
            /\ starting_knowledge' = <<>>
       ELSE IF Len(knowledge') > KnowledgeCap
       THEN /\ pc' = "idle"
            /\ exit' = "cap"
            /\ starting_knowledge' = <<>>
       ELSE /\ pc' = "refresh"
            /\ exit' = exit
            /\ starting_knowledge' = knowledge'
    /\ UNCHANGED <<height, width, board, moves_made, mines, safes,
                   op, arg, ret, calls>>

(* faulty make_safe_move: records the move it proposes *)
MakeSafeMove_Records ==
    /\ pc = "idle"
    /\ IF SafeMoves # {}
       THEN ret' \in SafeMoves
       ELSE ret' = None
    /\ moves_made' = IF ret' = None THEN moves_made ELSE moves_made \cup {ret'}
    /\ op' = "make_safe_move"
    /\ UNCHANGED <<height, width, board, mines, safes, knowledge,
                   starting_knowledge, pc, arg, calls, exit>>

(* make_safe_move() *)
MakeSafeMove ==
    /\ pc = "idle"
    /\ IF SafeMoves # {}
       THEN ret' \in SafeMoves
       ELSE ret' = None
    /\ op' = "make_safe_move"
    /\ UNCHANGED <<height, width, board, moves_made, mines, safes, knowledge,
                   starting_knowledge, pc, arg, calls, exit>>

(* make_random_move() *)
MakeRandomMove ==
    /\ pc = "idle"
    /\ IF RandomMoves # {}
       THEN ret' \in RandomMoves
       ELSE ret' = None
    /\ op' = "make_random_move"
    /\ UNCHANGED <<height, width, board, moves_made, mines, safes, knowledge,
                   starting_knowledge, pc, arg, calls, exit>>

(* the board's owner reveals any cell that is not a mine *)
Reveal ==
    /\ calls < MaxCalls
    /\ \E cell \in Cells : AddKnowledge(cell)

Next ==
    \/ Reveal
    \/ Refresh
    \/ RemoveStale
    \/ InferAndTest
    \/ MakeSafeMove
    \/ MakeRandomMove

Spec == Init /\ [][Next]_vars

(* add_knowledge is one synchronous call: once entered, each step of its  *)
(* loop is taken                                                          *)
SpecFair ==
    /\ Spec
    /\ WF_vars(Refresh)
    /\ WF_vars(RemoveStale)
    /\ WF_vars(InferAndTest)

(* ---------------- a full-size game that fills the knowledge base -------- *)
(* a board of the default size with twelve mines *)
CapBoard ==
    {<<0, 4>>, <<1, 1>>, <<1, 3>>, <<1, 5>>, <<2, 1>>, <<2, 7>>,
     <<3, 4>>, <<3, 5>>, <<4, 4>>, <<5, 2>>, <<6, 3>>, <<7, 6>>}

(* the cells of CapBoard that are revealed, in this order; none is a mine *)
CapOrder ==
    << <<2, 5>>, <<7, 5>>, <<1, 4>>, <<1, 2>>, <<0, 3>>, <<6, 4>>, <<7, 3>>,
       <<0, 2>>, <<5, 7>>, <<3, 7>>, <<4, 5>>, <<3, 3>>, <<7, 2>>, <<0, 6>>,
       <<7, 7>>, <<5, 3>>, <<2, 6>>, <<2, 3>>, <<0, 5>>, <<1, 7>>, <<5, 5>> >>

InitCap ==
    /\ height = DefaultHeight
    /\ width = DefaultWidth
    /\ board = CapBoard
    /\ EngineInit

(* the board's owner reveals the next cell of CapOrder *)
RevealCap ==
    /\ calls < Len(CapOrder)
    /\ AddKnowledge(CapOrder[calls + 1])

NextCap ==
    \/ RevealCap
    \/ Refresh
    \/ RemoveStale
    \/ InferAndTest
    \/ MakeSafeMove
    \/ MakeRandomMove

SpecCap == InitCap /\ [][NextCap]_vars

(* ---------------- callers that pass malformed facts ---------------- *)
(* two coordinates outside the grid *)
OutOfBounds == {<<0 - 1, 0>>, <<height, width>>}

(* a fact add_knowledge should not accept: a cell outside the grid, a      *)
(* negative count, or a count above the number of neighbouring cells       *)
Malformed(cell, count) ==
    \/ cell \notin Cells
    \/ count < 0
    \/ count > Cardinality(neighbouring_cells(cell))

InitMalformed ==
    /\ height = Height
    /\ width = Width
    /\ board = {}
    /\ EngineInit

(* a caller passes a malformed fact *)
RevealMalformed ==
    /\ calls < MaxCalls
    /\ \E cell \in Cells \cup OutOfBounds :
          \E count \in {0 - 1, 0, Cardinality(neighbouring_cells(cell)) + 1} :
              /\ Malformed(cell, count)
              /\ add_knowledge(cell, count)

NextMalformed ==
    \/ Reveal
    \/ RevealMalformed
    \/ Refresh
    \/ RemoveStale
    \/ InferAndTest
    \/ MakeSafeMove
    \/ MakeRandomMove

SpecMalformed == InitMalformed /\ [][NextMalformed]_vars

(* ---------------- callers of mark_mine and mark_safe ---------------- *)
(* the coordinates the callers pass: the corner and its neighbours *)
MarkCells == {<<0, 0>>} \cup neighbouring_cells(<<0, 0>>)

(* every sentence over neighbours of the corner with 0 <= count <= |cells| *)
MarkSentences ==
    UNION {{Sentence(cs, n) : n \in 0..Cardinality(cs)} :
              cs \in SUBSET {<<0, 1>>, <<1, 0>>, <<1, 1>>}}

(* every list of at most n such sentences *)
RECURSIVE MarkKnowledge(_)
MarkKnowledge(n) ==
    IF n = 0 THEN {<<>>}
    ELSE MarkKnowledge(n - 1) \cup
         {Append(k, x) : k \in {l \in MarkKnowledge(n - 1) : Len(l) = n - 1},
                         x \in MarkSentences}

(* an engine that holds any of these lists and has recorded nothing *)
InitMark ==
    /\ height = Height
    /\ width = Width
    /\ board = {}
    /\ moves_made = {}
    /\ mines = {}
    /\ safes = {}
    /\ knowledge \in MarkKnowledge(MaxSentences)
    /\ starting_knowledge = <<>>
    /\ pc = "idle"
    /\ op = "init"
    /\ arg = None
    /\ ret = None
    /\ calls = 0
    /\ exit = "none"

(* a caller calls MinesweeperAI.mark_mine(cell); arg.repeat tells that the *)
(* call before was the same call                                           *)
MarkMine(cell) ==
    /\ pc = "idle"
    /\ calls < MaxCalls
    /\ LET e == mark_mine(Engine(mines, safes, knowledge), {cell})
       IN /\ mines' = e.mines
          /\ safes' = e.safes
          /\ knowledge' = e.knowledge
    /\ op' = "mark_mine"
    /\ arg' = [cell |-> cell,
               repeat |-> (op = "mark_mine" /\ arg.cell = cell)]
    /\ calls' = calls + 1
    /\ UNCHANGED <<height, width, board, moves_made, starting_knowledge,
                   pc, ret, exit>>

(* a caller calls MinesweeperAI.mark_safe(cell) *)
MarkSafe(cell) ==
    /\ pc = "idle"
    /\ calls < MaxCalls
    /\ LET e == mark_safe(Engine(mines, safes, knowledge), {cell})
       IN /\ mines' = e.mines
          /\ safes' = e.safes
          /\ knowledge' = e.knowledge
    /\ op' = "mark_safe"
    /\ arg' = [cell |-> cell,
               repeat |-> (op = "mark_safe" /\ arg.cell = cell)]
    /\ calls' = calls + 1
    /\ UNCHANGED <<height, width, board, moves_made, starting_knowledge,
                   pc, ret, exit>>

MarkMineCall == \E cell \in MarkCells : MarkMine(cell)

MarkSafeCall == \E cell \in MarkCells : MarkSafe(cell)

NextMark ==
    \/ MarkMineCall
    \/ MarkSafeCall

SpecMark == InitMark /\ [][NextMark]_vars

(* ---------------- properties ---------------- *)
(* add_knowledge has returned at least once and nothing runs *)
Returned == pc = "idle" /\ calls > 0

(* C1: soundness. At every return of add_knowledge, every coordinate in    *)
(* mines is a mine of the board and no coordinate in safes is one.         *)
C1_Soundness ==
    Returned => (mines \subseteq board /\ safes \cap board = {})

(* C1 witness: a call has returned with a mine and an unvisited safe cell  *)
(* both deduced.                                                           *)
C1_Witness ==
    /\ Returned
    /\ mines # {}
    /\ safes \ moves_made # {}

(* C2: count invariant. Every sentence of knowledge, between the steps of  *)
(* the loop and at every return, has 0 <= count <= |cells|.                *)
C2_CountInvariant ==
    \A n \in 1..Len(knowledge) :
        /\ 0 <= knowledge[n].count
        /\ knowledge[n].count <= Cardinality(knowledge[n].cells)

(* C2 witness: inside the loop a sentence narrowed by a known mine is      *)
(* stored next to an inferred one.                                         *)
C2_Witness ==
    /\ pc = "refresh"
    /\ mines # {}
    /\ Len(knowledge) > calls
    /\ \E n \in 1..Len(knowledge) :
          /\ knowledge[n].count >= 1
          /\ knowledge[n].count < Cardinality(knowledge[n].cells)

(* C3: quiescence on return. When add_knowledge has returned no sentence   *)
(* has count 0 with cells not all in safes, and none has count = |cells|   *)
(* with cells not all in mines.                                            *)
C3_QuiescentOnReturn ==
    Returned =>
        \A n \in 1..Len(knowledge) :
            /\ ~(/\ knowledge[n].count = 0
                 /\ knowledge[n].cells # {}
                 /\ ~(knowledge[n].cells \subseteq safes))
            /\ ~(/\ knowledge[n].count = Cardinality(knowledge[n].cells)
                 /\ ~(knowledge[n].cells \subseteq mines))

(* C4: the cap is never reached. No add_knowledge call leaves its loop     *)
(* through the "len(self.knowledge) > 50" break.                           *)
C4_CapNeverReached == exit # "cap"

C6_Monotone ==
    [][/\ mines \subseteq mines'
       /\ safes \subseteq safes'
       /\ moves_made \subseteq moves_made']_vars

(* C6 witness: after the second call all three sets have grown beyond the  *)
(* revealed cells.                                                         *)
C6_Witness ==
    /\ Returned
    /\ calls >= 2
    /\ Cardinality(moves_made) >= 2
    /\ mines # {}
    /\ Cardinality(safes) > Cardinality(moves_made)

(* C7: make_safe_move returns None exactly when safes - moves_made is      *)
(* empty, and otherwise a coordinate of safes, not in moves_made, that is  *)
(* not a mine of the board.                                                *)
C7_SafeMove ==
    op = "make_safe_move" =>
        /\ (ret = None) <=> (safes \ moves_made = {})
        /\ ret # None =>
              /\ ret \in safes
              /\ ret \notin moves_made
              /\ ret \notin board

(* C7 witness: make_safe_move returned a cell while visited cells exist.   *)
C7_Witness ==
    /\ op = "make_safe_move"
    /\ ret # None
    /\ moves_made # {}
    /\ mines # {}

(* C7 second case reached: make_safe_move returned None after a reveal.    *)
C7_WitnessNone ==
    /\ op = "make_safe_move"
    /\ ret = None
    /\ moves_made # {}

C9_MovesPure ==
    [][op' \in {"make_safe_move", "make_random_move"} =>
          UNCHANGED <<moves_made, mines, safes, knowledge>>]_vars

(* C9 witness: a move was proposed on an engine that holds knowledge.      *)
C9_Witness ==
    /\ op \in {"make_safe_move", "make_random_move"}
    /\ ret # None
    /\ Len(knowledge) > 0
    /\ safes # {}

(* C10: zero-count reveal. When add_knowledge(cell, 0) has returned, every *)
(* in-bounds neighbour of cell is in safes.                                *)
C10_ZeroReveal ==
    (Returned /\ op = "add_knowledge" /\ arg.count = 0) =>
        neighbouring_cells(arg.cell) \subseteq safes

(* C10 witness: add_knowledge((1,1), 0) returned as the first call.        *)
C10_Witness ==
    /\ Returned
    /\ op = "add_knowledge"
    /\ calls = 1
    /\ arg = [cell |-> <<1, 1>>, count |-> 0]
    /\ Cardinality(neighbouring_cells(arg.cell)) = 8

(* C11: subset derivation. When infer_new_sentences runs on a knowledge    *)
(* holding A and B with A.cells a strict subset of B.cells, the knowledge  *)
(* holds {B.cells - A.cells, B.count - A.count} afterwards; and with       *)
(* A = {p,q} = 1 and B = {p,q,r} = 2 the loop goes on to put r in mines:   *)
(* it does not return on that pass unless r is a known mine, and the next  *)
(* refresh_knowledge marks r.                                              *)
C11_SubsetDerivation ==
    [][/\ pc = "infer" =>
            \A i, j \in 1..Len(knowledge) :
                (/\ knowledge[i].cells \subseteq knowledge[j].cells
                 /\ knowledge[i].cells # knowledge[j].cells)
                => \E n \in 1..Len(knowledge') :
                      /\ knowledge'[n].cells =
                             knowledge[j].cells \ knowledge[i].cells
                      /\ knowledge'[n].count =
                             knowledge[j].count - knowledge[i].count
       /\ pc = "infer" =>
            \A i, j \in 1..Len(knowledge) :
                (/\ knowledge[i].cells \subseteq knowledge[j].cells
                 /\ Cardinality(knowledge[i].cells) = 2
                 /\ Cardinality(knowledge[j].cells) = 3
                 /\ knowledge[i].count = 1
                 /\ knowledge[j].count = 2)
                => \/ pc' = "refresh"
                   \/ (knowledge[j].cells \ knowledge[i].cells) \subseteq mines'
       /\ pc = "refresh" =>
            \A n \in 1..Len(knowledge) :
                (Cardinality(knowledge[n].cells) = 1 /\ knowledge[n].count = 1)
                => knowledge[n].cells \subseteq mines'
      ]_vars

(* C11 witness: the loop has put r in mines after {p,q} = 1 and            *)
(* {p,q,r} = 2 met in infer_new_sentences: a call returned with a known    *)
(* mine r next to the sentence {p,q} = 1 that A and B have become.         *)
C11_Witness ==
    /\ Returned
    /\ \E r \in mines : \E n \in 1..Len(knowledge) :
          /\ Cardinality(knowledge[n].cells) = 2
          /\ knowledge[n].count = 1
          /\ knowledge[n].cells \subseteq neighbouring_cells(r)
          /\ arg.count = 2
          /\ (knowledge[n].cells \cup {r}) = neighbouring_cells(arg.cell)

(* C12: malformed input is rejected. A call of add_knowledge with a cell   *)
(* outside the grid, a negative count or a count above the number of       *)
(* cells of the new sentence ends in an error, and no sentence with        *)
(* count < 0 or count > |cells| is stored.                                 *)
C12_MalformedRejected ==
    /\ (op = "add_knowledge" /\ Malformed(arg.cell, arg.count))
           => exit = "error"
    /\ \A n \in 1..Len(knowledge) :
           /\ knowledge[n].count >= 0
           /\ knowledge[n].count <= Cardinality(knowledge[n].cells)

(* C13: idempotence of recording. A call of mark_mine(c) that follows a    *)
(* call of mark_mine(c) leaves mines, safes and knowledge as the first     *)
(* call left them, and likewise for mark_safe(c).                          *)
C13_MarkIdempotent ==
    [][(op' \in {"mark_mine", "mark_safe"} /\ arg'.repeat)
          => UNCHANGED <<mines, safes, knowledge>>]_vars

(* C13 witness: mark_mine(c) was called twice in a row on an engine whose  *)
(* sentence held c and still holds another cell.                           *)
C13_Witness ==
    /\ op = "mark_mine"
    /\ arg.repeat
    /\ arg.cell \in neighbouring_cells(<<0, 0>>)
    /\ Len(knowledge) >= 1
    /\ knowledge[1].cells # {}
    /\ knowledge[1].count = 0

(* C14: narrow correctness. Sentence.mark_mine(c) turns {cells, count}     *)
(* into {cells - {c}, count - 1} and Sentence.mark_safe(c) into            *)
(* {cells - {c}, count} when c is in cells; when c is not in cells both    *)
(* leave the sentence as it is.                                            *)
C14_NarrowCorrect ==
    [][op' \in {"mark_mine", "mark_safe"} =>
          /\ Len(knowledge') = Len(knowledge)
          /\ \A n \in 1..Len(knowledge) :
                IF arg'.cell \in knowledge[n].cells
                THEN /\ knowledge'[n].cells = knowledge[n].cells \ {arg'.cell}
                     /\ knowledge'[n].count =
                            IF op' = "mark_mine"
                            THEN knowledge[n].count - 1
                            ELSE knowledge[n].count
                ELSE /\ knowledge'[n].cells = knowledge[n].cells
                     /\ knowledge'[n].count = knowledge[n].count]_vars

(* C14 witness: after mark_safe(c) and mark_mine(d) a sentence that held   *)
(* both still holds a third cell.                                          *)
C14_Witness ==
    /\ op = "mark_mine"
    /\ safes # {}
    /\ mines \cap safes = {}
    /\ (mines \cup safes) \subseteq neighbouring_cells(<<0, 0>>)
    /\ Len(knowledge) >= 1
    /\ Cardinality(knowledge[1].cells) = 1
    /\ knowledge[1].count = 1

(* C15: termination. Every add_knowledge call returns: a call that is in   *)
(* its loop leaves it after finitely many passes.                          *)
C15_Terminates == (pc # "idle") ~> (pc = "idle")

(* C15 witness: a call has returned through the equality test after       *)
(* passes that found a mine, with sentences left in knowledge.             *)
C15_Witness ==
    /\ Returned
    /\ exit = "fixpoint"
    /\ Len(knowledge) >= 2
    /\ mines # {}

(* C16: truth of the knowledge base. With truthful reveals, at every point *)
(* of every call and between calls, each stored sentence has exactly       *)
(* count of its cells among the mines of the board.                        *)
C16_SentencesTrue ==
    \A n \in 1..Len(knowledge) :
        Cardinality(knowledge[n].cells \cap board) = knowledge[n].count

(* C16 witness: inside the loop, after an inference pass, a sentence over  *)
(* several cells with some but not all of them mines is stored while a     *)
(* mine is already known.                                                  *)
C16_Witness ==
    /\ pc = "refresh"
    /\ exit = "none"
    /\ calls >= 2
    /\ mines # {}
    /\ Len(knowledge) > calls
    /\ \E n \in 1..Len(knowledge) :
          /\ Cardinality(knowledge[n].cells) >= 3
          /\ knowledge[n].count = 1

(* C17: new-sentence construction. The step of add_knowledge(cell, count)  *)
(* before the loop appends exactly one sentence to the narrowed list: its  *)
(* cells are the in-bounds neighbours of cell, cell excluded, minus mines  *)
(* minus safes, its count is the reported count minus the number of        *)
(* neighbours already in mines, and it is appended even without cells.     *)
C17_NewSentence ==
    [][(pc = "idle" /\ pc' = "refresh") =>
        LET nbrs == {c \in Grid(height, width) :
                        /\ c # arg'.cell
                        /\ c[1] - arg'.cell[1] \in {0 - 1, 0, 1}
                        /\ c[2] - arg'.cell[2] \in {0 - 1, 0, 1}}
            last == knowledge'[Len(knowledge')]
        IN /\ Len(knowledge') = Len(knowledge) + 1
           /\ last.cells = (nbrs \ mines') \ safes'
           /\ last.count = arg'.count - Cardinality(nbrs \cap mines')
           /\ mines' = mines
           /\ safes' = safes \cup {arg'.cell}]_vars

(* C17 witness: a call has just appended a sentence without cells, after   *)
(* a known mine was subtracted from the reported count.                    *)
C17_Witness ==
    /\ pc = "refresh"
    /\ starting_knowledge = knowledge
    /\ exit = "none"
    /\ op = "add_knowledge"
    /\ Len(knowledge) >= 1
    /\ knowledge[Len(knowledge)].cells = {}
    /\ knowledge[Len(knowledge)].count = 0
    /\ arg.count >= 1

(* C18: combine closure at quiescence. Whenever add_knowledge has          *)
(* returned, for every two sentences A, B of knowledge with A.cells a      *)
(* strict subset of B.cells the sentence {B.cells - A.cells,               *)
(* B.count - A.count} is in knowledge, and no sentence has empty cells.    *)
C18_CombineClosure ==
    Returned =>
        /\ \A a \in 1..Len(knowledge) : \A b \in 1..Len(knowledge) :
              (/\ knowledge[a].cells \subseteq knowledge[b].cells
               /\ knowledge[a].cells # knowledge[b].cells)
              => \E n \in 1..Len(knowledge) :
                    /\ knowledge[n].cells =
                           knowledge[b].cells \ knowledge[a].cells
                    /\ knowledge[n].count =
                           knowledge[b].count - knowledge[a].count
        /\ \A n \in 1..Len(knowledge) : knowledge[n].cells # {}

(* no sentence of the engine holds a coordinate of its mines or safes *)
Resolved(e) ==
    \A n \in 1..Len(e.knowledge) :
        e.knowledge[n].cells \cap (e.mines \cup e.safes) = {}

(* C19: resolved coordinates stay out of live sentences. In every state,   *)
(* so at every return of add_knowledge and after each of its steps, no     *)
(* sentence of knowledge contains a coordinate of mines or safes, and      *)
(* moves_made is a subset of safes; the same holds after a mark_mine or    *)
(* mark_safe call made between calls, and after each mark call that        *)
(* refresh_knowledge makes while it walks its snapshot.                    *)
C19_ResolvedGone ==
    LET e == Engine(mines, safes, knowledge)
    IN /\ Resolved(e)
       /\ moves_made \subseteq safes
       /\ pc = "idle" =>
             \A cell \in Cells :
                 /\ Resolved(mark_mine(e, {cell}))
                 /\ Resolved(mark_safe(e, {cell}))
       /\ pc = "refresh" =>
             \A m \in 0..(Len(knowledge) - 1) :
                 LET before == RefreshFrom(SubSeq(knowledge, 1, m), 1, e)
                     sentence == knowledge[m + 1]
                 IN /\ \A cs \in SUBSET known_mines(sentence) :
                          Resolved(mark_mine(before, cs))
                    /\ \A cs \in SUBSET known_safes(sentence) :
                          Resolved(mark_safe(before, cs))

(* C19 witness: a call has returned with a known mine, a deduced safe      *)
(* cell not yet visited and two or more live sentences.                    *)
C19_Witness ==
    /\ Returned
    /\ calls >= 2
    /\ mines # {}
    /\ safes \ moves_made # {}
    /\ Len(knowledge) >= 2
    /\ \A n \in 1..Len(knowledge) : knowledge[n].cells # {}

====
